---- MODULE Spec2Model ----
(***************************************************************************)
(* A model of include/richdem/methods/d8_methods.hpp: D8 flow accumulation *)
(* (d8_flow_accum), upslope tracing (d8_upslope_cells) and the 3x3 terrain *)
(* operators.  A raster is a function from the linear index y*width+x of   *)
(* its storage to the cell value.                                          *)
(***************************************************************************)
EXTENDS Integers, Sequences, FiniteSets, TLC

(***************************************************************************)
(* Bounds of the model.                                                    *)
(***************************************************************************)
MaxW == 5
MaxH == 2
MaxCells == 6
MaxOverrides == 2
MaxSide == 3
MaxElevCells == 9
MaxCoef == 2
MaxAspectCoef == 3

(***************************************************************************)
(* D8 constants (richdem/common/constants.hpp).  Direction 3 is the east   *)
(* step (+1,0); NO_FLOW is 0; the eight directions run clockwise from      *)
(* north, so that the inverse of d is the direction four places on.        *)
(***************************************************************************)
NO_FLOW == 0
FLOWDIR_NO_DATA == 255
AREA_NO_DATA == 0 - 1

dx == [n \in 0..8 |-> <<0, 0, 1, 1, 1, 0, 0 - 1, 0 - 1, 0 - 1>>[n + 1]]
dy == [n \in 0..8 |-> <<0, 0 - 1, 0 - 1, 0, 1, 1, 1, 0, 0 - 1>>[n + 1]]
d8_inverse == [n \in 0..8 |-> <<0, 5, 6, 7, 8, 1, 2, 3, 4>>[n + 1]]

DirValues == (0..8) \cup {FLOWDIR_NO_DATA}

VARIABLES
  pc,              \* position in the running function
  width, height,   \* width() and height() of the input raster
  flowdirs,        \* the D8 direction raster (input)
  \* d8_flow_accum
  dependency,      \* Array2D<int8_t> dependency
  area,            \* the area raster (output)
  sources,         \* std::queue<GridCell> sources
  row,             \* y of the Phase 1 loop when it runs serially
  wx, wreg,        \* per row worker of the parallel Phase 1: its x, and the
                   \* dependency value it has loaded and not yet stored
  loops,           \* the reported loop count
  visits,          \* how often each cell has been dequeued (history)
  reordered,       \* a cell other than the front one has been dequeued
  \* d8_upslope_cells
  x0, y0, x1, y1,  \* the end points of the line
  upslope_cells,   \* the output raster
  expansion,       \* std::queue<GridCell> expansion
  lx, ly, error,   \* x, y and error of the line drawing loop
  outside,         \* a write has landed outside the storage of the raster
  \* TerrainProcessor
  elevations,      \* the elevation raster (input)
  cellLength,      \* getCellLengthX() = getCellLengthY()
  zscale,
  func,            \* the attribute function handed to TerrainProcessor
  output,          \* the output raster
  rows             \* the rows that TerrainProcessor has written

gridVars == <<width, height, flowdirs>>
accumVars == <<dependency, area, sources, row, wx, wreg, loops, visits, reordered>>
traceVars == <<x0, y0, x1, y1, upslope_cells, expansion, lx, ly, error, outside>>
terrainVars == <<elevations, cellLength, zscale, func, output, rows>>
vars == <<pc, gridVars, accumVars, traceVars, terrainVars>>

\* The variables of the functions that are not running.
IdleAccum ==
  /\ dependency = <<>> /\ area = <<>> /\ sources = <<>> /\ row = 0
  /\ wx = <<>> /\ wreg = <<>> /\ loops = 0 /\ visits = <<>> /\ reordered = FALSE
IdleTrace ==
  /\ x0 = 0 /\ y0 = 0 /\ x1 = 0 /\ y1 = 0 /\ upslope_cells = <<>>
  /\ expansion = <<>> /\ lx = 0 /\ ly = 0 /\ error = <<>> /\ outside = FALSE
IdleTerrain ==
  /\ elevations = <<>> /\ cellLength = 0 /\ zscale = 0 /\ func = ""
  /\ output = <<>> /\ rows = {}

(***************************************************************************)
(* Array2D helpers.                                                        *)
(***************************************************************************)
Cells == 0..(width * height - 1)
xyToI(x, y) == y * width + x
inGrid(x, y) == x >= 0 /\ y >= 0 /\ x < width /\ y < height
isNoData(x, y) == flowdirs[xyToI(x, y)] = FLOWDIR_NO_DATA
countval(a, v) == Cardinality({i \in DOMAIN a : a[i] = v})

(***************************************************************************)
(* The input rasters: every cell holds one base value b, except for at     *)
(* most MaxOverrides cells that hold a second value v, both drawn from the *)
(* whole alphabet of a direction raster.                                   *)
(***************************************************************************)
Shapes == {s \in (1..MaxW) \X (1..MaxH) : s[1] * s[2] <= MaxCells}
SmallSubsets(S, k) == {T \in SUBSET S : Cardinality(T) <= k}
RastersWith(n, k) ==
  {[i \in 0..(n - 1) |-> IF i \in T THEN v ELSE b] :
     b \in DirValues, v \in DirValues, T \in SmallSubsets(0..(n - 1), k)}
Rasters(n) == RastersWith(n, MaxOverrides)

(***************************************************************************)
(* d8_flow_accum, Phase 1: one iteration of the inner loop at (x,y).       *)
(* DependencyTarget is the cell whose dependency the iteration increments, *)
(* or -1 when the iteration increments nothing.                            *)
(***************************************************************************)
DependencyTarget(x, y) ==
  IF isNoData(x, y) THEN 0 - 1
  ELSE LET n == flowdirs[xyToI(x, y)] IN
       IF n = NO_FLOW THEN 0 - 1
       ELSE IF ~inGrid(x + dx[n], y + dy[n]) THEN 0 - 1
       ELSE xyToI(x + dx[n], y + dy[n])

SetNoDataArea(ar, x, y) ==
  IF isNoData(x, y) THEN [ar EXCEPT ![xyToI(x, y)] = AREA_NO_DATA] ELSE ar

Increment(dep, t) == [dep EXCEPT ![t] = @ + 1]

RECURSIVE Phase1RowDep(_, _, _)
Phase1RowDep(dep, x, y) ==
  IF x >= width THEN dep
  ELSE LET t == DependencyTarget(x, y) IN
       Phase1RowDep(IF t < 0 THEN dep ELSE Increment(dep, t), x + 1, y)

RECURSIVE Phase1RowArea(_, _, _)
Phase1RowArea(ar, x, y) ==
  IF x >= width THEN ar
  ELSE Phase1RowArea(SetNoDataArea(ar, x, y), x + 1, y)

\* Serial Phase 1: the body of the y loop for one row.
Phase1Row ==
  /\ pc = "phase1"
  /\ row < height
  /\ dependency' = Phase1RowDep(dependency, 0, row)
  /\ area' = Phase1RowArea(area, 0, row)
  /\ row' = row + 1
  /\ UNCHANGED <<pc, gridVars, sources, wx, wreg, loops, visits, reordered, traceVars, terrainVars>>

Phase1Done ==
  /\ pc = "phase1"
  /\ row >= height
  /\ pc' = "locate"
  /\ UNCHANGED <<gridVars, accumVars, traceVars, terrainVars>>

(***************************************************************************)
(* Phase 2: the source cells, in row-major order.                          *)
(***************************************************************************)
\* IsSource without the test of the dependency count.
IsSourceAnyData(dep, i) == flowdirs[i] # FLOWDIR_NO_DATA
IsSource(dep, i) == dep[i] = 0 /\ flowdirs[i] # FLOWDIR_NO_DATA

RECURSIVE SourceCells(_, _)
SourceCells(dep, i) ==
  IF i >= width * height THEN <<>>
  ELSE (IF IsSource(dep, i) THEN <<i>> ELSE <<>>) \o SourceCells(dep, i + 1)

LocateSources ==
  /\ pc = "locate"
  /\ sources' = SourceCells(dependency, 0)
  /\ pc' = "drain"
  /\ UNCHANGED <<gridVars, dependency, area, row, wx, wreg, loops, visits, reordered, traceVars, terrainVars>>

(***************************************************************************)
(* Phase 3: one iteration of the drain loop on the cell c taken from the   *)
(* queue, whose remaining content is rest.                                 *)
(***************************************************************************)
\* DrainTarget without the test of the neighbour for nodata.
DrainTargetAnyNeighbour(c) ==
  LET n == flowdirs[c]
      cx == c % width
      cy == c \div width
  IN IF n = NO_FLOW THEN 0 - 1
     ELSE IF ~inGrid(cx + dx[n], cy + dy[n]) THEN 0 - 1
     ELSE xyToI(cx + dx[n], cy + dy[n])

\* The cell the drained cell c passes its area to, or -1.
DrainTarget(c) ==
  LET n == flowdirs[c]
      cx == c % width
      cy == c \div width
  IN IF n = NO_FLOW THEN 0 - 1
     ELSE IF ~inGrid(cx + dx[n], cy + dy[n]) THEN 0 - 1
     ELSE IF isNoData(cx + dx[n], cy + dy[n]) THEN 0 - 1
     ELSE xyToI(cx + dx[n], cy + dy[n])

\* SelfContribution with the increment left out.
SelfContributionNone(ar, c) == ar
SelfContribution(ar, c) == [ar EXCEPT ![c] = @ + 1]

\* PassArea passing one cell instead of the accumulated area.
PassAreaOne(ar, c, t) == [ar EXCEPT ![t] = @ + 1]
PassArea(ar, c, t) == [ar EXCEPT ![t] = @ + ar[c]]

Decrement(dep, t) == [dep EXCEPT ![t] = @ - 1]

\* Enqueue without waiting for the last upstream cell.
EnqueueEarly(q, dep, t) == IF dep[t] <= 1 THEN Append(q, t) ELSE q
Enqueue(q, dep, t) == IF dep[t] = 0 THEN Append(q, t) ELSE q

DrainCell(c, rest) ==
  LET a1 == SelfContribution(area, c)
      t == DrainTarget(c)
  IN /\ visits' = [visits EXCEPT ![c] = @ + 1]
     /\ IF t < 0
        THEN /\ area' = a1
             /\ sources' = rest
             /\ UNCHANGED dependency
        ELSE /\ area' = PassArea(a1, c, t)
             /\ dependency' = Decrement(dependency, t)
             /\ sources' = Enqueue(rest, Decrement(dependency, t), t)

Drain ==
  /\ pc = "drain"
  /\ Len(sources) > 0
  /\ DrainCell(Head(sources), Tail(sources))
  /\ UNCHANGED <<pc, gridVars, row, wx, wreg, loops, reordered, traceVars, terrainVars>>

DrainDone ==
  /\ pc = "drain"
  /\ Len(sources) = 0
  /\ pc' = "report"
  /\ UNCHANGED <<gridVars, accumVars, traceVars, terrainVars>>

(***************************************************************************)
(* The loop count: eight times dependency.countval(-1).                    *)
(***************************************************************************)
RECURSIVE CountLoops(_, _)
CountLoops(dep, i) ==
  IF i < 0 - 8 THEN 0 ELSE countval(dep, 0 - 1) + CountLoops(dep, i - 1)

Report ==
  /\ pc = "report"
  /\ loops' = CountLoops(dependency, 0 - 1)
  /\ pc' = "done"
  /\ UNCHANGED <<gridVars, dependency, area, sources, row, wx, wreg, visits, reordered, traceVars, terrainVars>>

(***************************************************************************)
(* d8_flow_accum with Phase 1 run serially.                                *)
(***************************************************************************)
StartFlowAccum ==
  /\ \E s \in Shapes :
       /\ width = s[1]
       /\ height = s[2]
       /\ flowdirs \in Rasters(s[1] * s[2])
       /\ dependency = [i \in 0..(s[1] * s[2] - 1) |-> 0]
       /\ area = [i \in 0..(s[1] * s[2] - 1) |-> 0]
       /\ visits = [i \in 0..(s[1] * s[2] - 1) |-> 0]
  /\ sources = <<>>
  /\ reordered = FALSE
  /\ pc = "phase1"
  /\ loops = 0
  /\ IdleTrace
  /\ IdleTerrain

Init ==
  /\ StartFlowAccum
  /\ row = 0
  /\ wx = <<>>
  /\ wreg = <<>>

Next ==
  \/ Phase1Row
  \/ Phase1Done
  \/ LocateSources
  \/ Drain
  \/ DrainDone
  \/ Report

Spec == Init /\ [][Next]_vars

(***************************************************************************)
(* d8_flow_accum with the dequeue replaced by the choice of any queued     *)
(* cell.                                                                   *)
(***************************************************************************)
Remove(q, k) == SubSeq(q, 1, k - 1) \o SubSeq(q, k + 1, Len(q))

DrainAny ==
  /\ pc = "drain"
  /\ \E k \in 1..Len(sources) :
       /\ DrainCell(sources[k], Remove(sources, k))
       /\ reordered' = (reordered \/ k > 1)
  /\ UNCHANGED <<pc, gridVars, row, wx, wreg, loops, traceVars, terrainVars>>

NextAnyOrder ==
  \/ Phase1Row
  \/ Phase1Done
  \/ LocateSources
  \/ DrainAny
  \/ DrainDone
  \/ Report

SpecAnyOrder == Init /\ [][NextAnyOrder]_vars

(***************************************************************************)
(* d8_flow_accum with Phase 1 under "#pragma omp parallel for": one worker *)
(* per row.  ++dependency(nx,ny) is a plain read, add and write of a cell  *)
(* that the workers of the neighbouring rows write too; the workers'       *)
(* reads and writes interleave in any order.                               *)
(***************************************************************************)
StoreIncrement(dep, t, loaded) == [dep EXCEPT ![t] = loaded + 1]

WorkerStep(y) ==
  /\ pc = "phase1"
  /\ wx[y] < width
  /\ wreg[y] < 0
  /\ LET t == DependencyTarget(wx[y], y) IN
       /\ area' = SetNoDataArea(area, wx[y], y)
       /\ IF t < 0
          THEN wx' = [wx EXCEPT ![y] = @ + 1] /\ UNCHANGED wreg
          ELSE wreg' = [wreg EXCEPT ![y] = dependency[t]] /\ UNCHANGED wx
  /\ UNCHANGED <<pc, gridVars, dependency, sources, row, loops, visits, reordered,
                 traceVars, terrainVars>>

WorkerStore(y) ==
  /\ pc = "phase1"
  /\ wx[y] < width
  /\ wreg[y] >= 0
  /\ dependency' = StoreIncrement(dependency, DependencyTarget(wx[y], y), wreg[y])
  /\ wreg' = [wreg EXCEPT ![y] = 0 - 1]
  /\ wx' = [wx EXCEPT ![y] = @ + 1]
  /\ UNCHANGED <<pc, gridVars, area, sources, row, loops, visits, reordered,
                 traceVars, terrainVars>>

JoinWorkers ==
  /\ pc = "phase1"
  /\ \A y \in 0..(height - 1) : wx[y] >= width
  /\ pc' = "locate"
  /\ UNCHANGED <<gridVars, accumVars, traceVars, terrainVars>>

InitPar ==
  /\ StartFlowAccum
  /\ row = 0
  /\ wx = [y \in 0..(height - 1) |-> 0]
  /\ wreg = [y \in 0..(height - 1) |-> 0 - 1]

NextPar ==
  \/ \E y \in 0..(height - 1) : WorkerStep(y)
  \/ \E y \in 0..(height - 1) : WorkerStore(y)
  \/ JoinWorkers
  \/ LocateSources
  \/ Drain
  \/ DrainDone
  \/ Report

SpecPar == InitPar /\ [][NextPar]_vars

(***************************************************************************)
(* Single precision values of d8_upslope_cells: a fraction n/d with d > 0, *)
(* or the infinity or NaN that the division by deltax = 0 yields under     *)
(* IEEE 754.  With |deltay| and deltax below 8 the sums of fractions the   *)
(* loop forms are either exact in single precision or differ from every    *)
(* value they are compared with by more than the rounding error.           *)
(***************************************************************************)
Fin(n, d) == [k |-> "fin", n |-> n, d |-> d]
Inf == [k |-> "inf", n |-> 0, d |-> 1]
NaN == [k |-> "nan", n |-> 0, d |-> 1]
Abs(i) == IF i < 0 THEN 0 - i ELSE i
sgn(val) == (IF 0 < val THEN 1 ELSE 0) - (IF val < 0 THEN 1 ELSE 0)

\* (float)deltay/(float)deltax, made non-negative.
DeltaErr(deltax, deltay) ==
  IF deltax = 0
  THEN (IF deltay = 0 THEN NaN ELSE Inf)
  ELSE Fin(Abs(deltay), deltax)

FAdd(a, b) ==
  IF a.k = "nan" \/ b.k = "nan" THEN NaN
  ELSE IF a.k = "inf" \/ b.k = "inf" THEN Inf
  ELSE Fin(a.n * b.d + b.n * a.d, a.d * b.d)
FSubOne(a) == IF a.k = "fin" THEN Fin(a.n - a.d, a.d) ELSE a
FGeHalf(a) ==
  IF a.k = "nan" THEN FALSE
  ELSE IF a.k = "inf" THEN TRUE
  ELSE 2 * a.n >= a.d

(***************************************************************************)
(* upslope_cells(x,y) = v.  Array2D does not check the coordinates: the    *)
(* write goes to element y*width+x of the storage, which is another cell   *)
(* of the raster, or lies outside the storage.                             *)
(***************************************************************************)
InStorage(x, y) == xyToI(x, y) \in Cells
WriteCell(u, x, y, v) ==
  IF InStorage(x, y) THEN [u EXCEPT ![xyToI(x, y)] = v] ELSE u

(***************************************************************************)
(* d8_upslope_cells: the swap of the end points and the set-up of the      *)
(* line drawing loop.                                                      *)
(***************************************************************************)
BeginLine ==
  /\ pc = "begin"
  /\ IF x0 > x1
     THEN x0' = x1 /\ x1' = x0 /\ y0' = y1 /\ y1' = y0
     ELSE UNCHANGED <<x0, y0, x1, y1>>
  /\ lx' = x0'
  /\ ly' = y0'
  /\ error' = Fin(0, 1)
  /\ pc' = "line"
  /\ UNCHANGED <<gridVars, accumVars, upslope_cells, expansion, outside, terrainVars>>

\* One iteration of the line drawing loop.
StepTaken(e) == FGeHalf(FAdd(e, DeltaErr(x1 - x0, y1 - y0)))

\* LineMarks without the extra cell of a step.
LineMarksSingle(x, y, e) == <<<<x, y>>>>
\* The cells the iteration at (x,y) with error e marks with 2, in order.
LineMarks(x, y, e) ==
  IF StepTaken(e) THEN <<<<x, y>>, <<x + 1, y>>>> ELSE <<<<x, y>>>>

RECURSIVE MarkAll(_, _, _)
MarkAll(u, cells, v) ==
  IF cells = <<>> THEN u
  ELSE MarkAll(WriteCell(u, Head(cells)[1], Head(cells)[2], v), Tail(cells), v)

LineStep ==
  /\ pc = "line"
  /\ lx <= x1
  /\ LET marks == LineMarks(lx, ly, error)
         e == FAdd(error, DeltaErr(x1 - x0, y1 - y0))
     IN /\ expansion' = expansion \o marks
        /\ upslope_cells' = MarkAll(upslope_cells, marks, 2)
        /\ outside' = (outside \/ \E k \in 1..Len(marks) :
                                    ~InStorage(marks[k][1], marks[k][2]))
        /\ ly' = IF StepTaken(error) THEN ly + sgn(y1 - y0) ELSE ly
        /\ error' = IF StepTaken(error) THEN FSubOne(e) ELSE e
  /\ lx' = lx + 1
  /\ pc' = IF lx + 1 <= x1 THEN "line" ELSE "expand"
  /\ UNCHANGED <<gridVars, accumVars, x0, y0, x1, y1, terrainVars>>

(***************************************************************************)
(* The breadth-first traversal: the neighbours n = 1..8 of the dequeued    *)
(* cell c.  The result is the output raster and the queue.                 *)
(***************************************************************************)
\* Included without the test that the neighbour is still unmarked.
IncludedAnyMark(u, c, n) ==
  LET nx == c[1] + dx[n]
      ny == c[2] + dy[n]
  IN /\ inGrid(nx, ny)
     /\ flowdirs[xyToI(nx, ny)] # NO_FLOW
     /\ flowdirs[xyToI(nx, ny)] # FLOWDIR_NO_DATA
     /\ n = d8_inverse[flowdirs[xyToI(nx, ny)]]

\* The neighbour n of c is marked as an upslope cell and queued.
Included(u, c, n) ==
  LET nx == c[1] + dx[n]
      ny == c[2] + dy[n]
  IN /\ inGrid(nx, ny)
     /\ flowdirs[xyToI(nx, ny)] # NO_FLOW
     /\ flowdirs[xyToI(nx, ny)] # FLOWDIR_NO_DATA
     /\ u[xyToI(nx, ny)] = FLOWDIR_NO_DATA
     /\ n = d8_inverse[flowdirs[xyToI(nx, ny)]]

RECURSIVE ExpandFrom(_, _, _, _)
ExpandFrom(u, q, c, n) ==
  IF n > 8 THEN <<u, q>>
  ELSE IF Included(u, c, n)
       THEN ExpandFrom([u EXCEPT ![xyToI(c[1] + dx[n], c[2] + dy[n])] = 1],
                       Append(q, <<c[1] + dx[n], c[2] + dy[n]>>), c, n + 1)
       ELSE ExpandFrom(u, q, c, n + 1)

Expand ==
  /\ pc = "expand"
  /\ Len(expansion) > 0
  /\ LET r == ExpandFrom(upslope_cells, Tail(expansion), Head(expansion), 1)
     IN /\ upslope_cells' = r[1]
        /\ expansion' = r[2]
        /\ pc' = IF Len(r[2]) > 0 THEN "expand" ELSE "traced"
  /\ UNCHANGED <<gridVars, accumVars, x0, y0, x1, y1, lx, ly, error, outside,
                 terrainVars>>

\* A write outside the storage of the raster has corrupted the heap: the
\* process may fail at any later point, and its output is lost with it.
Fault ==
  /\ pc \in {"line", "expand"}
  /\ outside
  /\ pc' = "fault"
  /\ upslope_cells' = <<>>
  /\ expansion' = <<>>
  /\ lx' = 0 /\ ly' = 0 /\ error' = <<>>
  /\ UNCHANGED <<gridVars, accumVars, x0, y0, x1, y1, outside, terrainVars>>

(***************************************************************************)
(* d8_upslope_cells called with both end points on the grid, and called    *)
(* with the first end point up to one cell off the grid (the swap makes    *)
(* it the second one when it lies to the right) on a raster with at most   *)
(* one cell that differs from the others.                                  *)
(***************************************************************************)
StartUpslope(overrides) ==
  /\ \E s \in Shapes :
       /\ width = s[1]
       /\ height = s[2]
       /\ flowdirs \in RastersWith(s[1] * s[2], overrides)
       /\ upslope_cells = [i \in 0..(s[1] * s[2] - 1) |-> FLOWDIR_NO_DATA]
  /\ expansion = <<>>
  /\ lx = 0 /\ ly = 0 /\ error = Fin(0, 1)
  /\ outside = FALSE
  /\ pc = "begin"
  /\ IdleAccum
  /\ IdleTerrain

InitUpslope ==
  /\ StartUpslope(MaxOverrides)
  /\ x0 \in 0..(width - 1) /\ x1 \in 0..(width - 1)
  /\ y0 \in 0..(height - 1) /\ y1 \in 0..(height - 1)

InitUpslopeAnySeed ==
  /\ StartUpslope(1)
  /\ x0 \in (0 - 1)..width /\ x1 \in 0..(width - 1)
  /\ y0 \in (0 - 1)..height /\ y1 \in 0..(height - 1)

NextUpslope ==
  \/ BeginLine
  \/ LineStep
  \/ Expand
  \/ Fault

SpecUpslope == InitUpslope /\ [][NextUpslope]_vars
SpecUpslopeAnySeed == InitUpslopeAnySeed /\ [][NextUpslope]_vars

(***************************************************************************)
(* Terrain attributes.  The elevations are integers, zscale and the cell   *)
(* length are 1 or 2, so that every quotient by 2, 4, 8 and the cell       *)
(* length is exact in double precision; a value is kept as the fraction    *)
(* n/d in lowest terms with d > 0.  The quotient by G*G+H*H of the         *)
(* planform and profile curvatures is kept as a fraction too: it stands    *)
(* for the double nearest to it, which is 0 exactly when the fraction is.  *)
(***************************************************************************)
ELEV_NO_DATA == 0 - 9999

RECURSIVE Gcd(_, _)
Gcd(m, n) == IF n = 0 THEN m ELSE Gcd(n, m % n)
Frac(n, d) ==
  LET g == Gcd(Abs(n), Abs(d))
      sg == IF d < 0 THEN 0 - 1 ELSE 1
  IN [k |-> "num", n |-> sg * (n \div g), d |-> sg * (d \div g)]
Zero == Frac(0, 1)
RAdd(p, q) == Frac(p.n * q.d + q.n * p.d, p.d * q.d)
RSub(p, q) == Frac(p.n * q.d - q.n * p.d, p.d * q.d)
RMul(p, q) == Frac(p.n * q.n, p.d * q.d)
RDiv(p, q) == Frac(p.n * q.d, p.d * q.n)
RScale(i, p) == Frac(i * p.n, p.d)
\* sqrt(p), kept as the radicand.
Sqrt(p) == [k |-> "sqrt", n |-> p.n, d |-> p.d]
OutputNoData == [k |-> "nodata", n |-> 0, d |-> 1]

\* The value of the neighbour at offset (ox,oy), or of the centre cell
\* when that neighbour is off the grid or nodata.
NeighbourElevation(x, y, ox, oy) ==
  IF inGrid(x + ox, y + oy) /\ elevations[xyToI(x + ox, y + oy)] # ELEV_NO_DATA
  THEN elevations[xyToI(x + ox, y + oy)]
  ELSE elevations[xyToI(x, y)]

TerrainSetup(x, y) ==
  [a |-> zscale * NeighbourElevation(x, y, 0 - 1, 0 - 1),
   b |-> zscale * NeighbourElevation(x, y, 0, 0 - 1),
   c |-> zscale * NeighbourElevation(x, y, 1, 0 - 1),
   d |-> zscale * NeighbourElevation(x, y, 0 - 1, 0),
   e |-> zscale * elevations[xyToI(x, y)],
   f |-> zscale * NeighbourElevation(x, y, 1, 0),
   g |-> zscale * NeighbourElevation(x, y, 0 - 1, 1),
   h |-> zscale * NeighbourElevation(x, y, 0, 1),
   i |-> zscale * NeighbourElevation(x, y, 1, 1)]

TerrainCurvatureSetup(x, y) ==
  LET tsv == TerrainSetup(x, y)
      L == cellLength
  IN [L |-> L,
      D |-> Frac(tsv.d + tsv.f - 2 * tsv.e, 2 * L * L),
      E |-> Frac(tsv.b + tsv.h - 2 * tsv.e, 2 * L * L),
      F |-> Frac(0 - tsv.a + tsv.c + tsv.g - tsv.i, 4 * L * L),
      G |-> Frac(0 - tsv.d + tsv.f, 2 * L),
      H |-> Frac(tsv.b - tsv.h, 2 * L)]

\* The gradient of Horn (1981).
\* Dzdx with the weight 2 of the middle row left out.
DzdxUnweighted(x, y) ==
  LET tsv == TerrainSetup(x, y)
  IN Frac((tsv.c + tsv.f + tsv.i) - (tsv.a + tsv.d + tsv.g), 8 * cellLength)
Dzdx(x, y) ==
  LET tsv == TerrainSetup(x, y)
  IN Frac((tsv.c + 2 * tsv.f + tsv.i) - (tsv.a + 2 * tsv.d + tsv.g), 8 * cellLength)
Dzdy(x, y) ==
  LET tsv == TerrainSetup(x, y)
  IN Frac((tsv.g + 2 * tsv.h + tsv.i) - (tsv.a + 2 * tsv.b + tsv.c), 8 * cellLength)

Terrain_Slope_RiseRun(x, y) ==
  Sqrt(RAdd(RMul(Dzdx(x, y), Dzdx(x, y)), RMul(Dzdy(x, y), Dzdy(x, y))))

Terrain_Curvature(x, y) ==
  LET tscv == TerrainCurvatureSetup(x, y)
  IN RScale(0 - 200, RAdd(tscv.D, tscv.E))

Terrain_Planform_Curvature(x, y) ==
  LET p == TerrainCurvatureSetup(x, y)
      GG == RMul(p.G, p.G)
      HH == RMul(p.H, p.H)
      GH == RMul(p.G, p.H)
  IN IF p.G = Zero /\ p.H = Zero THEN Zero
     ELSE RScale(0 - 200,
                 RDiv(RSub(RAdd(RMul(p.D, HH), RMul(p.E, GG)), RMul(p.F, GH)),
                      RAdd(GG, HH)))

Terrain_Profile_Curvature(x, y) ==
  LET p == TerrainCurvatureSetup(x, y)
      GG == RMul(p.G, p.G)
      HH == RMul(p.H, p.H)
      GH == RMul(p.G, p.H)
  IN IF p.G = Zero /\ p.H = Zero THEN Zero
     ELSE RScale(200,
                 RDiv(RAdd(RAdd(RMul(p.D, GG), RMul(p.E, HH)), RMul(p.F, GH)),
                      RAdd(GG, HH)))

(***************************************************************************)
(* Terrain_Aspect.  A gradient component that is zero is +0.0 (it is a     *)
(* difference of two equal doubles), so that -dzdx is then -0.0, and       *)
(* atan2(+0.0, x) is pi for x = -0.0 as for x < 0.  180.0/M_PI*atan2(y,x)  *)
(* is exact on the axes and the diagonals (0, 45, 90, 135, 180 degrees and *)
(* their opposites); any other angle is kept as the direction (y : x) in   *)
(* lowest terms.                                                           *)
(***************************************************************************)
\* 180.0/M_PI*atan2(dzdy, -dzdx)
Atan2Degrees(dzdy, dzdx) ==
  LET y == dzdy.n * dzdx.d
      x == 0 - dzdx.n * dzdy.d
      g == Gcd(Abs(y), Abs(x))
  IN CASE y = 0 /\ x > 0 -> Frac(0, 1)
       [] y = 0 /\ x <= 0 -> Frac(180, 1)
       [] y > 0 /\ x = 0 -> Frac(90, 1)
       [] y < 0 /\ x = 0 -> Frac(0 - 90, 1)
       [] y # 0 /\ x # 0 /\ Abs(y) = Abs(x) ->
            Frac(sgn(y) * (IF x > 0 THEN 45 ELSE 135), 1)
       [] OTHER -> [k |-> "atan2", n |-> y \div g, d |-> x \div g]

\* the_aspect < 0, the_aspect > 90.0
IsNegative(t) == t.n < 0
Above90(t) == IF t.k = "num" THEN t.n > 90 * t.d ELSE t.n > 0 /\ t.d < 0

\* b - the_aspect, for b = 90 and b = 360 + 90
DegreesMinus(b, t) ==
  IF t.k = "num" THEN RSub(Frac(b, 1), t)
  ELSE [k |-> IF b = 90 THEN "90-atan2" ELSE "450-atan2", n |-> t.n, d |-> t.d]

\* The three-way branch with the first two results exchanged.
AspectBranchSwapped(the_aspect) ==
  IF IsNegative(the_aspect) THEN DegreesMinus(450, the_aspect)
  ELSE IF Above90(the_aspect) THEN DegreesMinus(90, the_aspect)
  ELSE DegreesMinus(90, the_aspect)
AspectBranch(the_aspect) ==
  IF IsNegative(the_aspect) THEN DegreesMinus(90, the_aspect)
  ELSE IF Above90(the_aspect) THEN DegreesMinus(450, the_aspect)
  ELSE DegreesMinus(90, the_aspect)

Terrain_Aspect(x, y) == AspectBranch(Atan2Degrees(Dzdy(x, y), Dzdx(x, y)))

Attributes == {"slope_riserun", "curvature", "planform_curvature", "profile_curvature"}
Attribute(f, x, y) ==
  CASE f = "slope_riserun" -> Terrain_Slope_RiseRun(x, y)
    [] f = "curvature" -> Terrain_Curvature(x, y)
    [] f = "planform_curvature" -> Terrain_Planform_Curvature(x, y)
    [] f = "profile_curvature" -> Terrain_Profile_Curvature(x, y)
    [] f = "aspect" -> Terrain_Aspect(x, y)

(***************************************************************************)
(* TerrainProcessor: the rows are written by parallel workers, each cell   *)
(* by one of them, in any order of the rows.                               *)
(***************************************************************************)
ProcessCell(x, y) ==
  IF elevations[xyToI(x, y)] = ELEV_NO_DATA
  THEN OutputNoData
  ELSE Attribute(func, x, y)

TerrainRow(y) ==
  /\ pc = "terrain"
  /\ y \notin rows
  /\ output' = [c \in Cells |->
                  IF c \div width = y THEN ProcessCell(c % width, y) ELSE output[c]]
  /\ rows' = rows \cup {y}
  /\ pc' = IF rows' = 0..(height - 1) THEN "processed" ELSE "terrain"
  /\ UNCHANGED <<gridVars, accumVars, traceVars, elevations, cellLength, zscale, func>>

(***************************************************************************)
(* The elevation rasters: a plane a*x + b*y + g with integer coefficients, *)
(* as it is, or a plane a*x + b*y with one cell raised by 1 or with one    *)
(* cell nodata.                                                            *)
(***************************************************************************)
Coefs == (0 - MaxCoef)..MaxCoef
AspectCoefs == (0 - MaxAspectCoef)..MaxAspectCoef
Offsets == 0..1
Elevations(w, h, coefs) ==
  LET n == w * h
      plane(a, b, g) == [c \in 0..(n - 1) |-> a * (c % w) + b * (c \div w) + g]
      planes == {plane(a, b, 0) : a \in coefs, b \in coefs}
  IN {plane(a, b, g) : a \in coefs, b \in coefs, g \in Offsets}
     \cup {[e EXCEPT ![q] = @ + 1] : e \in planes, q \in 0..(n - 1)}
     \cup {[e EXCEPT ![q] = ELEV_NO_DATA] : e \in planes, q \in 0..(n - 1)}

StartTerrain(attributes, coefs) ==
  /\ \E w \in 1..MaxSide, h \in 1..MaxSide :
       /\ w * h <= MaxElevCells
       /\ width = w
       /\ height = h
       /\ elevations \in Elevations(w, h, coefs)
       /\ output = [c \in 0..(w * h - 1) |-> Zero]
  /\ flowdirs = <<>>
  /\ cellLength \in 1..2
  /\ zscale \in 1..2
  /\ func \in attributes
  /\ rows = {}
  /\ pc = "terrain"
  /\ IdleAccum
  /\ IdleTrace

InitTerrain == StartTerrain(Attributes, Coefs)
InitAspect == StartTerrain({"aspect"}, AspectCoefs)

NextTerrain == \E y \in 0..(height - 1) : TerrainRow(y)

SpecTerrain == InitTerrain /\ [][NextTerrain]_vars
SpecAspect == InitAspect /\ [][NextTerrain]_vars

(***************************************************************************)
(* The flow graph of a direction raster, as the properties below speak of  *)
(* it.  Down(c) is the data cell that the data cell c flows into, or -1    *)
(* when c is a terminal cell: NO_FLOW, an off-grid step, or a step into a  *)
(* nodata cell.                                                            *)
(***************************************************************************)
IsData(c) == flowdirs[c] # FLOWDIR_NO_DATA
HasDirection(c) == flowdirs[c] \in 1..8
NeighbourX(c) == (c % width) + dx[flowdirs[c]]
NeighbourY(c) == (c \div width) + dy[flowdirs[c]]
NeighbourInGrid(c) ==
  /\ HasDirection(c)
  /\ NeighbourX(c) \in 0..(width - 1)
  /\ NeighbourY(c) \in 0..(height - 1)
Neighbour(c) == NeighbourY(c) * width + NeighbourX(c)
FlowsOffGrid(c) == HasDirection(c) /\ ~NeighbourInGrid(c)
FlowsIntoNoData(c) == NeighbourInGrid(c) /\ ~IsData(Neighbour(c))
Down(c) == IF NeighbourInGrid(c) /\ IsData(Neighbour(c)) THEN Neighbour(c) ELSE 0 - 1

RECURSIVE FlowPath(_, _)
FlowPath(c, k) ==
  IF k = 0 \/ Down(c) < 0 THEN {c} ELSE {c} \cup FlowPath(Down(c), k - 1)
PathOf(c) == FlowPath(c, width * height)

DataCells == {c \in Cells : IsData(c)}
OnCycle(c) == Down(c) >= 0 /\ c \in PathOf(Down(c))
NoFlowCycle == \A c \in DataCells : ~OnCycle(c)
Basin(c) == {d \in DataCells : c \in PathOf(d)}
InDegree(c) == Cardinality({d \in Cells : NeighbourInGrid(d) /\ Neighbour(d) = c})

RECURSIVE SumArea(_)
SumArea(S) ==
  IF S = {} THEN 0
  ELSE LET c == CHOOSE e \in S : TRUE IN area[c] + SumArea(S \ {c})

(***************************************************************************)
(* C1.  On a direction raster without a flow cycle, with Phase 1 run       *)
(* serially, every data cell ends with area equal to the number of data    *)
(* cells whose flow path includes it, itself counted.                      *)
(***************************************************************************)
C1_AreaIsBasinSize ==
  (pc = "done" /\ NoFlowCycle) =>
    \A c \in DataCells : area[c] = Cardinality(Basin(c))

\* The chain [3,3,3,3,NO_FLOW] has ended with area [1,2,3,4,5].
C1_Witness ==
  /\ pc = "done"
  /\ width = 5 /\ height = 1
  /\ flowdirs = [i \in 0..4 |-> IF i = 4 THEN NO_FLOW ELSE 3]
  /\ area = [i \in 0..4 |-> i + 1]

(***************************************************************************)
(* C2.  After Phase 1 run by parallel workers, the dependency of each cell *)
(* is the number of data cells with a direction whose in-grid downstream   *)
(* neighbour it is: no increment is lost.                                  *)
(***************************************************************************)
C2_NoLostIncrement ==
  pc = "locate" => \A c \in Cells : dependency[c] = InDegree(c)

(***************************************************************************)
(* C3.  Whatever queued cell each dequeue takes, the drain ends with the   *)
(* same area raster, the one the direction raster alone determines: -1 at  *)
(* a nodata cell, the size of its basin at a cell off every cycle, and at  *)
(* a cell on a cycle the number of cells off the cycles whose path enters  *)
(* the cycle at that cell.                                                 *)
(***************************************************************************)
EntersAt(d, c) == \E u \in PathOf(d) : ~OnCycle(u) /\ Down(u) = c
OrderFreeArea ==
  [c \in Cells |->
     IF ~IsData(c) THEN AREA_NO_DATA
     ELSE IF OnCycle(c)
          THEN Cardinality({d \in DataCells : ~OnCycle(d) /\ EntersAt(d, c)})
          ELSE Cardinality(Basin(c))]

C3_OrderIndependent == pc = "done" => area = OrderFreeArea

\* A drain has ended in which a cell other than the front one was taken
\* while two cells that flow into the same cell were waiting.
C3_Witness ==
  /\ pc = "done"
  /\ reordered
  /\ \E c \in DataCells : InDegree(c) >= 2 /\ area[c] >= 3

(***************************************************************************)
(* C4.  The reported loop count is the number of data cells whose          *)
(* dependency is still positive after the drain.                           *)
(***************************************************************************)
StuckCells == {c \in DataCells : dependency[c] > 0}
C4_LoopsCountsStuckCells == pc = "done" => loops = Cardinality(StuckCells)

(***************************************************************************)
(* C5.  From the end of Phase 1 on, the area is -1 exactly at the nodata   *)
(* cells of the direction raster, no nodata cell is queued, and at the end *)
(* a data cell that flows into a nodata cell holds the size of its basin,  *)
(* as a cell that flows off the grid does.                                 *)
(***************************************************************************)
C5_NoDataArea ==
  pc \in {"locate", "drain", "report", "done"} =>
    /\ \A c \in Cells : (area[c] = AREA_NO_DATA) <=> ~IsData(c)
    /\ \A k \in 1..Len(sources) : IsData(sources[k])
    /\ \A c \in Cells : ~IsData(c) => visits[c] = 0
    /\ pc = "done" =>
         \A c \in DataCells :
           (FlowsIntoNoData(c) \/ FlowsOffGrid(c)) => area[c] = Cardinality(Basin(c))

\* The drain has ended on a raster where a cell that others flow into
\* flows into a nodata cell.
C5_Witness ==
  /\ pc = "done"
  /\ \E c \in DataCells : FlowsIntoNoData(c) /\ area[c] >= 2

(***************************************************************************)
(* C9.  Mass conservation as stated: the areas of the data cells off the   *)
(* cycles that are NO_FLOW or flow off the grid add up to the number of    *)
(* data cells off the cycles.                                              *)
(***************************************************************************)
OffCycle == {c \in DataCells : ~OnCycle(c)}
StatedSinks == {c \in OffCycle : flowdirs[c] = NO_FLOW \/ FlowsOffGrid(c)}
C9_MassConservation == pc = "done" => SumArea(StatedSinks) = Cardinality(OffCycle)

(***************************************************************************)
(* C9, amended.  The areas of the terminal data cells (NO_FLOW, flowing    *)
(* off the grid, or flowing into a nodata cell) add up to the number of    *)
(* data cells whose flow path ends at a terminal cell, that is, does not   *)
(* run into a cycle.                                                       *)
(***************************************************************************)
Terminals == {c \in DataCells : Down(c) < 0}
Drained == {d \in DataCells : \E t \in PathOf(d) : Down(t) < 0}
C9_MassConservationAmended ==
  pc = "done" => SumArea(Terminals) = Cardinality(Drained)

\* The drain has ended on a raster with a terminal cell that flows into a
\* nodata cell and a terminal cell that flows off the grid, each with a
\* cell upstream of it.
C9_Witness ==
  /\ pc = "done"
  /\ \E c \in Terminals : FlowsIntoNoData(c) /\ area[c] >= 2
  /\ \E c \in Terminals : FlowsOffGrid(c) /\ area[c] >= 2

(***************************************************************************)
(* The initializing line as the specification describes it: for x from the *)
(* left end point to the right one, the cell (x,y); the error grows by     *)
(* |dy|/dx, and when it reaches 1/2 the cell (x+1,y) belongs to the line   *)
(* too, y moves one row towards the right end point and the error drops    *)
(* by 1.  e is the error times dx.                                         *)
(***************************************************************************)
RECURSIVE LineFrom(_, _, _, _, _, _)
LineFrom(x, y, e, xb, adx, dyy) ==
  IF x > xb THEN {}
  ELSE IF 2 * (e + Abs(dyy)) >= adx
       THEN {<<x, y>>, <<x + 1, y>>}
              \cup LineFrom(x + 1, y + sgn(dyy), e + Abs(dyy) - adx, xb, adx, dyy)
       ELSE {<<x, y>>} \cup LineFrom(x + 1, y, e + Abs(dyy), xb, adx, dyy)

LineCells ==
  IF x0 <= x1
  THEN LineFrom(x0, y0, 0, x1, x1 - x0, y1 - y0)
  ELSE LineFrom(x1, y1, 0, x0, x0 - x1, y0 - y1)

OnGrid(p) == p[1] \in 0..(width - 1) /\ p[2] \in 0..(height - 1)
LineInGrid == \A p \in LineCells : OnGrid(p)
XY(c) == <<c % width, c \div width>>

\* The cells that following the flow directions from c passes, c included.
RECURSIVE Course(_, _)
Course(c, k) ==
  IF k = 0 \/ ~NeighbourInGrid(c) THEN {c} ELSE {c} \cup Course(Neighbour(c), k - 1)
ReachesLine(c) == \E d \in Course(c, width * height) : XY(d) \in LineCells

ExpectedMark(c) ==
  IF XY(c) \in LineCells THEN 2
  ELSE IF HasDirection(c) /\ ReachesLine(c) THEN 1
  ELSE FLOWDIR_NO_DATA

(***************************************************************************)
(* C6.  For end points with x0 # x1 whose line cells all lie in the grid:  *)
(* once the line is drawn every line cell holds 2 and keeps it during the  *)
(* traversal, and at the end a cell holds 2 iff it is a line cell, 1 iff   *)
(* it is no line cell, has a direction 1..8 and its flow reaches a line    *)
(* cell, and nodata otherwise.                                             *)
(***************************************************************************)
C6_UpslopeMarks ==
  (x0 # x1 /\ LineInGrid) =>
    /\ pc \in {"expand", "traced"} =>
         \A c \in Cells : XY(c) \in LineCells => upslope_cells[c] = 2
    /\ pc = "traced" => \A c \in Cells : upslope_cells[c] = ExpectedMark(c)

\* A trace has ended whose line takes a step, with a line cell that flows
\* into another line cell, a cell marked 1 and a cell with a direction that
\* is left unmarked.
C6_Witness ==
  /\ pc = "traced"
  /\ x0 # x1 /\ y0 # y1 /\ LineInGrid
  /\ \E c \in Cells : XY(c) \in LineCells /\ NeighbourInGrid(c)
                        /\ XY(Neighbour(c)) \in LineCells
  /\ \E c \in Cells : upslope_cells[c] = 1
  /\ \E c \in Cells : HasDirection(c) /\ upslope_cells[c] = FLOWDIR_NO_DATA

(***************************************************************************)
(* C7.  For a vertical segment (x0 = x1, y0 # y1) on a raster where every  *)
(* cell flows east, in the rows of the segment the cell of column x0 ends  *)
(* with 2, the cells west of it with 1 and the cells east of it with       *)
(* nodata.                                                                 *)
(***************************************************************************)
Between(y, a, b) == (a <= y /\ y <= b) \/ (b <= y /\ y <= a)
C7_VerticalSegment ==
  (pc = "traced" /\ x0 = x1 /\ y0 # y1 /\ \A c \in Cells : flowdirs[c] = 3) =>
    \A c \in Cells :
      Between(c \div width, y0, y1) =>
        upslope_cells[c] = (IF c % width = x0 THEN 2
                            ELSE IF c % width < x0 THEN 1
                            ELSE FLOWDIR_NO_DATA)

(***************************************************************************)
(* C8.  A call with an end point outside the grid does not complete; it    *)
(* marks no cell of the output raster and writes no cell outside it.       *)
(***************************************************************************)
SeedOffGrid == ~OnGrid(<<x0, y0>>) \/ ~OnGrid(<<x1, y1>>)
C8_OffGridSeedRejected ==
  SeedOffGrid =>
    /\ pc # "traced"
    /\ ~outside
    /\ \A c \in DOMAIN upslope_cells : upslope_cells[c] = FLOWDIR_NO_DATA

(***************************************************************************)
(* Terrain attributes of a plane.                                          *)
(***************************************************************************)
Planar(a, b, g) ==
  \A c \in Cells : elevations[c] = a * (c % width) + b * (c \div width) + g

UnitCells == cellLength = 1 /\ zscale = 1

\* The cells whose eight neighbours are all cells of the grid.
InteriorCell(c) ==
  /\ 0 < c % width /\ c % width < width - 1
  /\ 0 < c \div width /\ c \div width < height - 1

PlaneAttribute(f, a, b) ==
  IF f = "slope_riserun" THEN Sqrt(Frac(a * a + b * b, 1)) ELSE Zero

PlaneValuesAt(c, a, b) ==
  LET x == c % width
      y == c \div width
  IN /\ Dzdx(x, y) = Frac(a, 1)
     /\ Dzdy(x, y) = Frac(b, 1)
     /\ \A f \in Attributes : Attribute(f, x, y) = PlaneAttribute(f, a, b)
     /\ y \in rows => output[c] = PlaneAttribute(func, a, b)

\* C10: on a plane a*x + b*y + g without nodata, with cell length 1 and
\* zscale 1, at every cell of the grid, the border cells included, the
\* gradient of Horn is (a, b), the rise/run slope is sqrt(a*a + b*b) and
\* the total, planform and profile curvatures are 0.
C10_PlaneEveryCell ==
  pc \in {"terrain", "processed"} =>
    \A a \in Coefs, b \in Coefs, g \in Offsets :
      (Planar(a, b, g) /\ UnitCells) =>
        \A c \in Cells : PlaneValuesAt(c, a, b)

\* C10, for the cells the code gives it to: on such a plane, at every cell
\* whose eight neighbours are all cells of the grid, the gradient of Horn
\* is (a, b), the rise/run slope is sqrt(a*a + b*b) and the three
\* curvatures are 0; a border cell, whose off-grid neighbours take its own
\* value, is left out.
C10_PlaneInteriorCells ==
  pc \in {"terrain", "processed"} =>
    \A a \in Coefs, b \in Coefs, g \in Offsets :
      (Planar(a, b, g) /\ UnitCells) =>
        \A c \in Cells : InteriorCell(c) => PlaneValuesAt(c, a, b)

\* A 3x3 plane 2x + y whose planform curvature has been written: 0 at the
\* centre cell, not 0 at the corner (0,0).
C10_Witness ==
  /\ pc = "processed"
  /\ width = 3 /\ height = 3
  /\ Planar(2, 1, 0) /\ UnitCells
  /\ func = "planform_curvature"
  /\ output[4] = Zero
  /\ output[0] # Zero
(***************************************************************************)
(* Aspect.                                                                 *)
(***************************************************************************)
AspectAt(c, dzdx, dzdy, degrees) ==
  LET x == c % width
      y == c \div width
  IN /\ Dzdx(x, y) = Frac(dzdx, 1)
     /\ Dzdy(x, y) = Frac(dzdy, 1)
     /\ Terrain_Aspect(x, y) = Frac(degrees, 1)
     /\ (func = "aspect" /\ y \in rows) => output[c] = Frac(degrees, 1)

\* C11: on the raster E(x,y) = 3x with cell length 1 and zscale 1, at a
\* cell whose eight neighbours are all cells of the grid, the gradient is
\* dzdx = 3, dzdy = 0 and Terrain_Aspect returns 90 degrees (east).
C11_AspectEast ==
  pc \in {"terrain", "processed"} =>
    \A g \in Offsets :
      (Planar(3, 0, g) /\ UnitCells) =>
        \A c \in Cells : InteriorCell(c) => AspectAt(c, 3, 0, 90)

\* C11, with the value the code returns: on that raster, at such a cell,
\* the gradient is dzdx = 3, dzdy = 0, the angle atan2(0, -3) is 180
\* degrees, above 90, and Terrain_Aspect returns 360 - 180 + 90 = 270
\* degrees (west, the direction of descent).
C11_AspectWest ==
  pc \in {"terrain", "processed"} =>
    \A g \in Offsets :
      (Planar(3, 0, g) /\ UnitCells) =>
        \A c \in Cells : InteriorCell(c) => AspectAt(c, 3, 0, 270)

\* The aspect of the 3x3 raster E = 3x has been written: 270 at the centre.
C11_Witness ==
  /\ pc = "processed"
  /\ width = 3 /\ height = 3
  /\ Planar(3, 0, 0) /\ UnitCells
  /\ func = "aspect"
  /\ output[4] = Frac(270, 1)

\* The nine values of the neighbourhood of a data cell are all equal.
FlatAt(c) ==
  /\ elevations[c] # ELEV_NO_DATA
  /\ \A ox \in {0 - 1, 0, 1}, oy \in {0 - 1, 0, 1} :
       NeighbourElevation(c % width, c \div width, ox, oy) = elevations[c]

FlatValuesAt(c, degrees) ==
  LET x == c % width
      y == c \div width
  IN /\ Dzdx(x, y) = Zero /\ Dzdy(x, y) = Zero
     /\ Terrain_Slope_RiseRun(x, y) = Sqrt(Zero)
     /\ Terrain_Curvature(x, y) = Zero
     /\ Terrain_Planform_Curvature(x, y) = Zero
     /\ Terrain_Profile_Curvature(x, y) = Zero
     /\ Terrain_Aspect(x, y) = Frac(degrees, 1)
     /\ (func = "aspect" /\ y \in rows) => output[c] = Frac(degrees, 1)

\* C12: at a data cell whose neighbourhood is constant after the edge and
\* nodata replacement, dzdx = dzdy = 0, Terrain_Aspect returns 0, and the
\* slope and the three curvatures are 0.
C12_FlatAspectZero ==
  pc \in {"terrain", "processed"} =>
    \A c \in Cells : FlatAt(c) => FlatValuesAt(c, 0)
(***************************************************************************)
(* The queue discipline of the serial flow accumulation.                   *)
(***************************************************************************)
\* The number of places of the queue that hold the cell c.
TimesQueued(c) == Cardinality({i \in 1..Len(sources) : sources[i] = c})

\* C13: in every state of a serial run, no dependency count is negative;
\* a cell of the queue is a data cell whose count is 0; once the sources
\* are enumerated, a data cell has count 0 exactly when it is on the queue
\* or has been taken from it; and no cell is put on the queue or taken
\* from it twice, so that it adds its own 1 to its area at most once.
C13_QueueDiscipline ==
  pc \in {"phase1", "locate", "drain", "report", "done"} =>
    /\ \A c \in Cells : dependency[c] >= 0
    /\ \A i \in 1..Len(sources) : IsData(sources[i]) /\ dependency[sources[i]] = 0
    /\ \A c \in Cells : visits[c] + TimesQueued(c) <= 1
    /\ pc \in {"drain", "report", "done"} =>
         \A c \in DataCells : dependency[c] = 0 <=> visits[c] + TimesQueued(c) = 1

\* A cell with two upstream cells, both taken from the queue, is on the
\* queue: it was put there by the decrement that brought its count to 0.
C13_Witness ==
  /\ pc = "drain"
  /\ \E c \in DataCells :
       /\ TimesQueued(c) = 1
       /\ InDegree(c) = 2
       /\ \A d \in DataCells : (Down(d) = c) => visits[d] = 1
(***************************************************************************)
(* The cells written by the line drawing loop.                             *)
(***************************************************************************)
\* C14: with both end points on the grid and x0 # x1, every cell the line
\* drawing loop marks with 2 and puts on the queue, the extra cell
\* (x+1,y) of a step included, is a cell of the grid, and no write falls
\* outside the output raster.
C14_LineWritesInGrid ==
  (pc \in {"line", "expand", "traced", "fault"} /\ x0 # x1
     /\ OnGrid(<<x0, y0>>) /\ OnGrid(<<x1, y1>>)) =>
    /\ ~outside
    /\ \A k \in 1..Len(expansion) : OnGrid(expansion[k])
====
